---- MODULE Spec2Model ----
(***************************************************************************)
(* MCTSplayer of agent.h: one decision (take_action) as a state machine.    *)
(* The tree of Node objects, the select / expand / simulate /               *)
(* backpropagation loop and the final choice are translated from agent.h.   *)
(* board.h and action.h are not part of the sources at hand: the board is   *)
(* a NoGo board on a line of NCells cells (a stone may be placed on an      *)
(* empty cell when afterwards every block of stones keeps a liberty), with  *)
(* the interface agent.h uses: place, get_who_take_turn, action::apply.     *)
(***************************************************************************)
EXTENDS Integers, Sequences, FiniteSets, TLC

\* ------------------------------------------------------------------ bounds
\* number of cells of the board (board::size_x * board::size_y)
NCells == 4
\* largest simulation budget T explored
MaxSim == 6
\* select_child as a pure function: longest children vector, largest n
MaxKids == 3
MaxVisits == 2
\* visits of the root that went through no child of the node scored
MaxAbove == 1

\* ------------------------------------------------------------- the board
Cells == 0 .. (NCells - 1)
Sides == {"black", "white"}
\* the position of a default-constructed action::place (no move)
NoMove == -1
NULL == 0

Opponent(s) == IF s = "black" THEN "white" ELSE "black"

\* the stone at cell p belongs to a block that touches an empty cell
HasLiberty(cells, p) ==
    \E q \in Cells :
        /\ cells[q] = "empty"
        /\ \A k \in Cells :
              ((q < k /\ k <= p) \/ (p <= k /\ k < q)) => cells[k] = cells[p]

\* the cells after the side to move puts a stone on p
Put(b, p) == [b.cells EXCEPT ![p] = b.turn]

\* board::place(p) == board::legal
IsLegal(b, p) ==
    /\ p \in Cells
    /\ b.cells[p] = "empty"
    /\ LET after == Put(b, p)
       IN \A k \in Cells : after[k] # "empty" => HasLiberty(after, k)

\* board::place(p): on legal the stone is put and the turn passes, on
\* illegal the board is left as it was
Place(b, p) ==
    IF IsLegal(b, p)
    THEN [cells |-> Put(b, p), turn |-> Opponent(b.turn)]
    ELSE b

\* action::place::apply(b): b.place(position(), color()); a stone of a side
\* that is not to move is illegal
ActionApply(b, p, color) ==
    IF p \in Cells /\ color = b.turn THEN Place(b, p) ELSE b

get_who_take_turn(b) == b.turn

LegalMoves(b) == {p \in Cells : IsLegal(b, p)}

\* boards a game can have reached when its side to move is asked to act:
\* every block has a liberty and the stones alternate, black first
Count(cells, s) == Cardinality({p \in Cells : cells[p] = s})
Boards ==
    {b \in [cells : [Cells -> {"empty", "black", "white"}], turn : Sides] :
        /\ \A k \in Cells : b.cells[k] # "empty" => HasLiberty(b.cells, k)
        /\ b.turn = "black" => Count(b.cells, "black") = Count(b.cells, "white")
        /\ b.turn = "white" => Count(b.cells, "black") = Count(b.cells, "white") + 1}

\* std::shuffle(space): any order of the cells
Shuffles == {s \in [1 .. NCells -> Cells] : \A x, y \in 1 .. NCells : s[x] = s[y] => x = y}

\* ------------------------------------------------------------- UCT score
\* A double is kept as a record: DBL_MAX, NaN, or the finite value
\* q + c * x / 1000, with q the integer quotient, x the square root in
\* thousandths and c = num / 10^exp.
\* the default argument c = sqrt(2.0) of select_child
Sqrt2C == [num |-> 14142, exp |-> 4]
\* the argument 0.000000000001 of the call in take_action
FinalC == [num |-> 1, exp |-> 12]
\* (select calling select_child without its fourth argument)
SearchCDefault == Sqrt2C
\* the argument 0.5 of the call in select
SearchC == [num |-> 5, exp |-> 1]

\* std::log(k) in millionths, k = 1 .. 24
LnTable == << 0, 693147, 1098612, 1386294, 1609437, 1791759, 1945910, 2079441,
              2197224, 2302585, 2397895, 2484906, 2564949, 2639057, 2708050, 2772588,
              2833213, 2890371, 2944438, 2995732, 3044522, 3091042, 3135494, 3178053 >>
LnMicro(k) == LnTable[k]

RECURSIVE ISqrtIn(_, _, _)
ISqrtIn(v, lo, hi) ==
    IF lo >= hi THEN lo
    ELSE LET mid == (lo + hi + 1) \div 2
         IN IF mid * mid <= v THEN ISqrtIn(v, mid, hi) ELSE ISqrtIn(v, lo, mid - 1)
\* floor of the square root
ISqrt(v) == ISqrtIn(v, 0, 2000)

\* sqrt(log(rootn) / n) in thousandths
SqrtLogOver(rootn, n) == ISqrt(LnMicro(rootn) \div n)

RECURSIVE DivPow10(_, _)
DivPow10(v, e) == IF e = 0 THEN v ELSE DivPow10(v \div 10, e - 1)

\* Node::is_unvisited
is_unvisited(child) == child.n = 0

\* (a child never visited scored as a visited one with nothing won)
UctScoreUnvisitedZero(child, rootn, c) ==
    IF child.n = 0 THEN [kind |-> "fin", q |-> 0, c |-> c, x |-> 0]
    ELSE IF rootn <= 0 THEN [kind |-> "nan"]
    ELSE [kind |-> "fin", q |-> child.w \div child.n, c |-> c,
          x |-> SqrtLogOver(rootn, child.n)]

\* the score select_child gives a child.  log(0) is -infinity and the square
\* root of a negative number NaN; an integer division by zero is marked "fpe"
UctScore(child, rootn, c) ==
    IF is_unvisited(child) THEN [kind |-> "max"]
    ELSE IF child.n = 0 THEN [kind |-> "fpe"]
    ELSE IF rootn <= 0 THEN [kind |-> "nan"]
    ELSE [kind |-> "fin", q |-> child.w \div child.n, c |-> c,
          x |-> SqrtLogOver(rootn, child.n)]

\* (double max_score = 1: no score of a visited child exceeds it at c near 0)
InitialMaxOne == [kind |-> "fin", q |-> 1, c |-> FinalC, x |-> 0]

\* double max_score = -1
InitialMax == [kind |-> "fin", q |-> -1, c |-> FinalC, x |-> 0]

\* s > t for two finite scores: s.q - t.q > c * (t.x - s.x) / 1000
FinGt(s, t) ==
    (s.q - t.q) * 1000 > DivPow10(s.c.num * (t.x - s.x), s.c.exp)

\* (uct_score >= max_score)
ScoreGe(s, t) ==
    CASE s.kind = "max" -> TRUE
      [] s.kind = "fin" -> t.kind = "fin" /\ ~FinGt(t, s)
      [] OTHER -> FALSE

\* uct_score > max_score
ScoreGt(s, t) ==
    CASE s.kind = "max" -> t.kind # "max"
      [] s.kind = "fin" -> t.kind = "fin" /\ FinGt(s, t)
      [] OTHER -> FALSE

\* the for loop of select_child over the children kids[k .. ], with the
\* index of best_child (0 while it is unassigned) and max_score so far
RECURSIVE Scan(_, _, _, _, _, _)
Scan(kids, k, best, max, rootn, c) ==
    IF k > Len(kids) THEN best
    ELSE LET uct_score == UctScore(kids[k], rootn, c)
         IN IF ScoreGt(uct_score, max)
            THEN Scan(kids, k + 1, k, uct_score, rootn, c)
            ELSE Scan(kids, k + 1, best, max, rootn, c)

\* index in kids of the child select_child returns; 0: best_child was never
\* assigned and the pointer returned is indeterminate
BestIndex(kids, rootn, c) == Scan(kids, 1, 0, InitialMax, rootn, c)

\* a child is scored by a division by its zero visit count
DividesByZero(kids) == \E k \in 1 .. Len(kids) : UctScore(kids[k], 1, SearchC).kind = "fpe"

\* --------------------------------------------------------------- the tree
VARIABLES who, simulation_times, state, nodes, allocated, i, pc,
          current_board, current_node, simulate_board, has_leagal_move, result,
          best_node, ret, path_count, c_used, div_by_zero, last_pass,
          sc_kids, sc_rootn, sc_c, sc_best,
          freed, expand_calls, expand_on_fresh, first_result

vars == << who, simulation_times, state, nodes, allocated, i, pc,
           current_board, current_node, simulate_board, has_leagal_move, result,
           best_node, ret, path_count, c_used, div_by_zero, last_pass,
           sc_kids, sc_rootn, sc_c, sc_best,
           freed, expand_calls, expand_on_fresh, first_result >>

root == 1

\* new Node()
NewNode == [parent |-> NULL, children |-> << >>, placer |-> "black",
            node_move |-> NoMove, n |-> 0, w |-> 0]

\* reverse_player: opp_side is returned unassigned for any other side
reverse_player(one_side) ==
    IF one_side = "black" THEN {"white"}
    ELSE IF one_side = "white" THEN {"black"}
    ELSE {"empty", "black", "white"}

KidsOf(t, node) == [k \in 1 .. Len(t[node].children) |-> t[t[node].children[k]]]

\* select_child(state, node, root, c): the possible <<best_child, state>>;
\* NULL for a node without children
select_child(t, b, node, c) ==
    IF Len(t[node].children) = 0 THEN {<< NULL, b >>}
    ELSE LET best == BestIndex(KidsOf(t, node), t[root].n, c)
         IN IF best = 0
            THEN {<< x, Place(b, t[x].node_move) >> : x \in 1 .. Len(t)}
            ELSE {<< t[node].children[best], Place(b, t[t[node].children[best]].node_move) >>}

\* select(state, root): the while loop from node down to a node without
\* children; the possible <<leaf, state>>
RECURSIVE select(_, _, _)
select(t, b, node) ==
    IF Len(t[node].children) = 0 THEN {<< node, b >>}
    ELSE UNION {select(t, r[2], r[1]) : r \in select_child(t, b, node, SearchC)}

\* the nodes from node up to the root by the parent pointers
RECURSIVE Chain(_, _)
Chain(t, node) == IF node = NULL THEN {} ELSE {node} \cup Chain(t, t[node].parent)

\* the nodes on the way from the root down to leaf through the children
\* vectors (the nodes whose subtree holds leaf)
RECURSIVE Subtree(_, _)
Subtree(t, node) ==
    {node} \cup UNION {Subtree(t, t[node].children[k]) : k \in 1 .. Len(t[node].children)}
PathDown(t, leaf) == {x \in 1 .. Len(t) : leaf \in Subtree(t, x)}

\* the moves of space that are legal on b, in the order of space
LegalIn(b, space) == SelectSeq(space, LAMBDA p : IsLegal(b, p))

\* (expand without the test of legality)
expand_all(t, b, node, space, cp) ==
    LET base == Len(t)
        kids == [k \in 1 .. Len(space) |->
                    [NewNode EXCEPT !.node_move = space[k], !.placer = cp, !.parent = node]]
        ids == [k \in 1 .. Len(space) |-> base + k]
    IN [t EXCEPT ![node].children = @ \o ids] \o kids

\* expand(state, node): the tree after a child was emplaced for every legal
\* move of the shuffled space, each with placer cp
expand(t, b, node, space, cp) ==
    LET moves == LegalIn(b, space)
        base == Len(t)
        kids == [k \in 1 .. Len(moves) |->
                    [NewNode EXCEPT !.node_move = moves[k], !.placer = cp, !.parent = node]]
        ids == [k \in 1 .. Len(moves) |-> base + k]
    IN [t EXCEPT ![node].children = @ \o ids] \o kids

\* one pass of the for loop of simulate over the shuffled space: every move
\* that is legal when its turn comes is placed
RECURSIVE Pass(_, _, _)
Pass(b, space, k) ==
    IF k > NCells THEN b ELSE Pass(Place(b, space[k]), space, k + 1)

\* (a loss counted as -1)
OutcomeSigned(b, me) == IF get_who_take_turn(b) = me THEN -1 ELSE 1

\* (the rollout's outcome with its two values exchanged)
OutcomeFlipped(b, me) == IF get_who_take_turn(b) = me THEN 1 ELSE 0

\* the value simulate returns for the board its loop ended on
Outcome(b, me) == IF get_who_take_turn(b) = me THEN 0 ELSE 1

\* (while (node->parent != nullptr): the root is left out)
RECURSIVE backpropagation_below_root(_, _, _)
backpropagation_below_root(t, node, res) ==
    IF node = NULL \/ t[node].parent = NULL THEN t
    ELSE backpropagation_below_root([t EXCEPT ![node].n = @ + 1, ![node].w = @ + res],
                                    t[node].parent, res)

\* (the walk up the parents begun at the leaf's parent: the leaf is skipped)
RECURSIVE backpropagation_skip(_, _, _, _)
backpropagation_skip(t, node, res, skip) ==
    IF node = NULL THEN t
    ELSE backpropagation_skip(
            IF skip THEN t ELSE [t EXCEPT ![node].n = @ + 1, ![node].w = @ + res],
            t[node].parent, res, FALSE)
backpropagation_from_parent(t, node, res) == backpropagation_skip(t, node, res, TRUE)

\* (the walk up the parents with the leaf counted twice)
RECURSIVE backpropagation_twice(_, _, _, _)
backpropagation_twice(t, node, res, first) ==
    IF node = NULL THEN t
    ELSE backpropagation_twice(
            [t EXCEPT ![node].n = @ + (IF first THEN 2 ELSE 1), ![node].w = @ + res],
            t[node].parent, res, FALSE)
backpropagation_leaf_twice(t, node, res) == backpropagation_twice(t, node, res, TRUE)

\* (the result added to the leaf alone)
RECURSIVE backpropagation_n_only(_, _)
backpropagation_n_only(t, node) ==
    IF node = NULL THEN t
    ELSE backpropagation_n_only([t EXCEPT ![node].n = @ + 1], t[node].parent)
backpropagation_leaf_reward(t, node, res) ==
    IF node = NULL THEN t
    ELSE backpropagation_n_only([t EXCEPT ![node].w = @ + res], node)

\* simulate(state, node): the values it can return.  The while loop runs a
\* pass over a fresh shuffle of space; has_leagal_move stays false when the
\* pass placed no stone, and the side to move then decides the value
RECURSIVE simulate(_, _)
simulate(b, me) ==
    UNION {IF after = b THEN {Outcome(b, me)} ELSE simulate(after, me) :
              after \in {Pass(b, space, 1) : space \in Shuffles}}

\* backpropagation(node, result): the while loop up the parent pointers
RECURSIVE backpropagation(_, _, _)
backpropagation(t, node, res) ==
    IF node = NULL THEN t
    ELSE backpropagation([t EXCEPT ![node].n = @ + 1, ![node].w = @ + res],
                         t[node].parent, res)

\* ------------------------------------------------------------ take_action
NoSC == /\ sc_kids = << >> /\ sc_rootn = 0 /\ sc_c = SearchC /\ sc_best = -1

\* an agent of side who with budget T is asked to move on a board where it
\* is its turn; Node *root = new Node(), root->placer = reverse_player(who)
Init ==
    /\ who \in Sides
    /\ simulation_times \in -1 .. MaxSim
    /\ state \in {b \in Boards : b.turn = who}
    /\ \E cp \in reverse_player(who) : nodes = << [NewNode EXCEPT !.placer = cp] >>
    /\ allocated = 1
    /\ i = 0
    /\ pc = "select"
    /\ current_board = state
    /\ current_node = NULL
    /\ simulate_board = state
    /\ has_leagal_move = TRUE
    /\ result = 0
    /\ best_node = NULL
    /\ ret = NoMove
    /\ path_count = << 0 >>
    /\ c_used = {}
    /\ div_by_zero = FALSE
    /\ last_pass = 0
    /\ NoSC
    /\ freed = 0
    /\ expand_calls = << 0 >>
    /\ expand_on_fresh = TRUE
    /\ first_result = << -1 >>

SCVars == << sc_kids, sc_rootn, sc_c, sc_best >>

\* line 282-284: current_board(state); current_node = select(current_board, root)
Select ==
    /\ pc = "select"
    /\ i < simulation_times
    /\ \E r \in select(nodes, state, root) :
          /\ current_node' = r[1]
          /\ current_board' = r[2]
          /\ div_by_zero' = (div_by_zero \/
                \E x \in PathDown(nodes, r[1]) : DividesByZero(KidsOf(nodes, x)))
    /\ c_used' = IF Len(nodes[root].children) > 0
                 THEN c_used \cup {<< "select", SearchC >>} ELSE c_used
    /\ pc' = "expand"
    /\ UNCHANGED << who, simulation_times, state, nodes, allocated, i, simulate_board,
                    has_leagal_move, result, best_node, ret, path_count, last_pass,
                    SCVars,
                    freed, expand_calls, expand_on_fresh, first_result >>

\* (the test of line 286 left out: every leaf reached is expanded)
NeedsExpandAlways(leaf) == TRUE

\* line 286: if(current_node->n==0)
NeedsExpand(leaf) == leaf.n = 0

\* line 286-293: the leaf was never visited: expand it, then apply its move
ExpandLeaf ==
    /\ pc = "expand"
    /\ NeedsExpand(nodes[current_node])
    /\ \E t \in {expand(nodes, current_board, current_node, space, cp) :
                    space \in Shuffles, cp \in reverse_player(nodes[current_node].placer)} :
          /\ nodes' = t
          /\ path_count' = [x \in 1 .. Len(t) |-> IF x <= Len(nodes) THEN path_count[x] ELSE 0]
    /\ allocated' = allocated + NCells
    /\ current_board' = ActionApply(current_board, nodes[current_node].node_move, who)
    /\ pc' = "simulate"
    /\ expand_calls' = [x \in 1 .. Len(nodes') |->
                          IF x > Len(nodes) THEN 0
                          ELSE IF x = current_node THEN expand_calls[x] + 1
                          ELSE expand_calls[x]]
    /\ expand_on_fresh' = (expand_on_fresh /\ nodes[current_node].n = 0
                                            /\ Len(nodes[current_node].children) = 0)
    /\ first_result' = [x \in 1 .. Len(nodes') |->
                          IF x > Len(nodes) THEN -1 ELSE first_result[x]]
    /\ UNCHANGED << who, simulation_times, state, i, current_node, simulate_board,
                    has_leagal_move, result, best_node, ret, c_used, div_by_zero,
                    last_pass, SCVars, freed >>

\* line 286: the leaf was visited before
SkipExpand ==
    /\ pc = "expand"
    /\ ~NeedsExpand(nodes[current_node])
    /\ pc' = "simulate"
    /\ UNCHANGED << who, simulation_times, state, nodes, allocated, i, current_board,
                    current_node, simulate_board, has_leagal_move, result, best_node,
                    ret, path_count, c_used,
                    div_by_zero, last_pass, SCVars,
                    freed, expand_calls, expand_on_fresh, first_result >>

\* line 295: result = simulate(current_board, current_node)
Simulate ==
    /\ pc = "simulate"
    /\ \E r \in simulate(current_board, who) : result' = r
    /\ pc' = "backprop"
    /\ UNCHANGED << who, simulation_times, state, nodes, allocated, i, current_board,
                    current_node, simulate_board, has_leagal_move, best_node, ret,
                    path_count, c_used, div_by_zero, last_pass, SCVars,
                    freed, expand_calls, expand_on_fresh, first_result >>

\* line 298: backpropagation(current_node, result), and the i++ of the loop;
\* the loop body's locals current_board and result are gone (kept equal to
\* state and 0)
Backpropagation ==
    /\ pc = "backprop"
    /\ nodes' = backpropagation(nodes, current_node, result)
    /\ path_count' = [x \in 1 .. Len(path_count) |->
                        IF x \in PathDown(nodes, current_node)
                        THEN path_count[x] + 1 ELSE path_count[x]]
    /\ i' = i + 1
    /\ current_board' = state
    /\ result' = 0
    /\ pc' = "select"
    /\ first_result' = [first_result EXCEPT ![current_node] =
                          IF nodes[current_node].n = 0 THEN result ELSE @]
    /\ UNCHANGED << who, simulation_times, state, allocated, current_node,
                    simulate_board, has_leagal_move, best_node, ret, c_used, div_by_zero,
                    last_pass, SCVars, freed, expand_calls,
                    expand_on_fresh >>

\* line 300-313: the loop is over; the root's child of the best score
FinalSelect ==
    /\ pc = "select"
    /\ ~(i < simulation_times)
    /\ \E r \in select_child(nodes, state, root, FinalC) :
          /\ best_node' = r[1]
          /\ current_board' = r[2]
          /\ ret' = IF r[1] # NULL THEN nodes[r[1]].node_move ELSE NoMove
    /\ div_by_zero' = (div_by_zero \/ DividesByZero(KidsOf(nodes, root)))
    /\ c_used' = c_used \cup {<< "final", FinalC >>}
    /\ pc' = "done"
    /\ UNCHANGED << who, simulation_times, state, nodes, allocated, i, current_node,
                    simulate_board, has_leagal_move, result, path_count, last_pass,
                    SCVars,
                    freed, expand_calls, expand_on_fresh, first_result >>

Next ==
    \/ Select
    \/ ExpandLeaf
    \/ SkipExpand
    \/ Simulate
    \/ Backpropagation
    \/ FinalSelect

Spec == Init /\ [][Next]_vars

\* ------------------------------------------- select_child on any children
RECURSIVE SumN(_, _)
SumN(kids, k) == IF k > Len(kids) THEN 0 ELSE kids[k].n + SumN(kids, k + 1)

KidStats == {st \in [n : 0 .. MaxVisits, w : 0 .. MaxVisits] : st.w <= st.n}
KidSeqs == UNION {[1 .. len -> KidStats] : len \in 1 .. MaxKids}

\* a node with children kids in a tree whose root was visited sc_rootn times
InitSC ==
    /\ sc_kids \in KidSeqs
    /\ sc_rootn \in (1 + SumN(sc_kids, 1)) .. (1 + SumN(sc_kids, 1) + MaxAbove)
    /\ sc_c \in {SearchC, Sqrt2C, FinalC}
    /\ sc_best = -1
    /\ who = "black"
    /\ simulation_times = 0
    /\ state = [cells |-> [p \in Cells |-> "empty"], turn |-> "black"]
    /\ nodes = << NewNode >>
    /\ allocated = 1
    /\ i = 0
    /\ pc = "select_child"
    /\ current_board = state
    /\ current_node = NULL
    /\ simulate_board = state
    /\ has_leagal_move = TRUE
    /\ result = 0
    /\ best_node = NULL
    /\ ret = NoMove
    /\ path_count = << 0 >>
    /\ c_used = {}
    /\ div_by_zero = FALSE
    /\ last_pass = 0
    /\ freed = 0
    /\ expand_calls = << 0 >>
    /\ expand_on_fresh = TRUE
    /\ first_result = << -1 >>

\* line 167-178: the loop of select_child over the children
SelectChildCall ==
    /\ pc = "select_child"
    /\ sc_best = -1
    /\ sc_best' = BestIndex(sc_kids, sc_rootn, sc_c)
    /\ UNCHANGED << who, simulation_times, state, nodes, allocated, i, pc,
                    current_board, current_node, simulate_board, has_leagal_move,
                    result, best_node, ret, path_count, c_used, div_by_zero, last_pass,
                    sc_kids, sc_rootn, sc_c,
                    freed, expand_calls, expand_on_fresh, first_result >>

NextSC == SelectChildCall

SpecSC == InitSC /\ [][NextSC]_vars

\* ---------------------------------------------- simulate, pass by pass
Stones(b) == Cardinality({p \in Cells : b.cells[p] # "empty"})

\* simulate is entered with any board a game can show, for either side
InitSim ==
    /\ who \in Sides
    /\ simulate_board \in {b \in [cells : [Cells -> {"empty", "black", "white"}], turn : Sides] :
                             \A k \in Cells : b.cells[k] # "empty" => HasLiberty(b.cells, k)}
    /\ has_leagal_move = TRUE
    /\ pc = "simulate_loop"
    /\ result = -1
    /\ last_pass = 0
    /\ simulation_times = 0
    /\ state = simulate_board
    /\ nodes = << NewNode >>
    /\ allocated = 1
    /\ i = 0
    /\ current_board = simulate_board
    /\ current_node = root
    /\ best_node = NULL
    /\ ret = NoMove
    /\ path_count = << 0 >>
    /\ c_used = {}
    /\ div_by_zero = FALSE
    /\ NoSC
    /\ freed = 0
    /\ expand_calls = << 0 >>
    /\ expand_on_fresh = TRUE
    /\ first_result = << -1 >>

\* (line 239 left out: has_leagal_move is never set back to false)
PassPlacedSticky(before, after) == TRUE

\* has_leagal_move after a pass: set to false at line 239, to true at line
\* 248 when a stone was placed
PassPlaced(before, after) == after # before

\* line 237-251: one turn of the while loop: a shuffle and a pass over it
SimulatePass ==
    /\ pc = "simulate_loop"
    /\ has_leagal_move
    /\ \E space \in Shuffles :
          /\ simulate_board' = Pass(simulate_board, space, 1)
          /\ has_leagal_move' = PassPlaced(simulate_board, simulate_board')
          /\ last_pass' = Stones(simulate_board') - Stones(simulate_board)
    /\ UNCHANGED << who, simulation_times, state, nodes, allocated, i, pc, current_board,
                    current_node, result, best_node, ret, path_count, c_used,
                    div_by_zero, SCVars,
                    freed, expand_calls, expand_on_fresh, first_result >>

\* line 252-255: the loop is left and the value returned
SimulateReturn ==
    /\ pc = "simulate_loop"
    /\ ~has_leagal_move
    /\ result' = Outcome(simulate_board, who)
    /\ pc' = "simulate_done"
    /\ UNCHANGED << who, simulation_times, state, nodes, allocated, i, current_board,
                    current_node, simulate_board, has_leagal_move, best_node, ret,
                    path_count, c_used, div_by_zero, last_pass, SCVars,
                    freed, expand_calls, expand_on_fresh, first_result >>

NextSim == SimulatePass \/ SimulateReturn

SpecSim == InitSim /\ [][NextSim]_vars

\* the rollout is one sequential loop of one thread: while a turn of the loop
\* or the return can be taken, one of them is taken
SpecSimFair == InitSim /\ [][NextSim]_vars /\ WF_vars(NextSim)

\* ----------------------------------------------------------------- claims
LoopOver == pc = "done" \/ (pc = "select" /\ ~(i < simulation_times))

\* C1: for every budget simulation_times >= 0, when the search loop of
\* take_action has finished, root.n equals simulation_times.
C1_RootVisitsEqualBudget ==
    (LoopOver /\ simulation_times >= 0) => nodes[root].n = simulation_times

C1_Witness ==
    /\ pc = "done" /\ simulation_times = MaxSim
    /\ Len(nodes) > 2 /\ nodes[root].n = MaxSim

\* C2: in every state reachable during a decision every node of the tree
\* satisfies 0 <= w <= n.
C2_RewardWithinVisits ==
    \A x \in 1 .. Len(nodes) : 0 <= nodes[x].w /\ nodes[x].w <= nodes[x].n

C2_Witness ==
    \E x \in 1 .. Len(nodes) : 0 < nodes[x].w /\ nodes[x].w < nodes[x].n

\* C3: after any number of completed iterations, the n of every node is the
\* number of those iterations whose selection path (root down to the leaf
\* select returned) contains the node.
C3_VisitsCountPaths ==
    pc \in {"select", "done"} =>
        /\ Len(path_count) = Len(nodes)
        /\ \A x \in 1 .. Len(nodes) : nodes[x].n = path_count[x]

C3_Witness ==
    /\ pc = "select" /\ i >= 3
    /\ \E x, y \in 2 .. Len(nodes) :
          /\ nodes[x].n >= 2 /\ path_count[x] = nodes[x].n
          /\ nodes[y].n = 0 /\ path_count[y] = 0

\* C4: if the input board has exactly one legal move for the side to act,
\* take_action returns that move for every simulation_times >= 0.
C4_OnlyMoveReturned ==
    (pc = "done" /\ simulation_times >= 0 /\ Cardinality(LegalMoves(state)) = 1)
        => ret \in LegalMoves(state)

\* C5: if the input board has no legal move for the side to act, the root's
\* children stay empty through all iterations, no score divides by a zero
\* visit count, and take_action returns the no-move sentinel.
C5_NoMoveAtTerminalRoot ==
    LegalMoves(state) = {} =>
        /\ Len(nodes[root].children) = 0
        /\ ~div_by_zero
        /\ pc = "done" => (ret = NoMove /\ best_node = NULL)

C5_Witness ==
    /\ LegalMoves(state) = {} /\ pc = "done" /\ simulation_times >= 2
    /\ ret = NoMove /\ nodes[root].n >= 2

\* the scores select_child gave the children of the call under SpecSC
ScScore(k) == UctScore(sc_kids[k], sc_rootn, sc_c)

\* C6: select_child on a node that has a child with n == 0 returns a child
\* with n == 0, whatever the statistics of the visited siblings, the
\* exploration constant and the order of the children.
C6_UnvisitedChildFirst ==
    (sc_best # -1 /\ \E k \in 1 .. Len(sc_kids) : sc_kids[k].n = 0)
        => (sc_best \in 1 .. Len(sc_kids) /\ sc_kids[sc_best].n = 0)

C6_Witness ==
    /\ sc_best \in 2 .. Len(sc_kids)
    /\ sc_kids[sc_best].n = 0
    /\ sc_kids[1].n > 0 /\ sc_kids[1].w = sc_kids[1].n

\* C7: select_child on a node with children returns the earliest child, in
\* children order, among those of maximal score.
C7_EarliestMaximalChild ==
    sc_best # -1 =>
        /\ sc_best \in 1 .. Len(sc_kids)
        /\ \A k \in 1 .. Len(sc_kids) :
              /\ ~((ScScore(k).kind = "max" /\ ScScore(sc_best).kind # "max")
                    \/ (ScScore(k).kind = "fin" /\ ScScore(sc_best).kind = "fin"
                        /\ FinGt(ScScore(k), ScScore(sc_best))))
              /\ k < sc_best =>
                    \/ (ScScore(sc_best).kind = "max" /\ ScScore(k).kind # "max")
                    \/ (ScScore(sc_best).kind = "fin" /\ ScScore(k).kind = "fin"
                        /\ FinGt(ScScore(sc_best), ScScore(k)))

C7_Witness ==
    /\ sc_best = 2 /\ Len(sc_kids) = 3
    /\ sc_kids[2].n > 0 /\ sc_kids[3] = sc_kids[2]
    /\ sc_kids[1].n > 0

C9_FinalMoveMaxRatio ==
    (/\ pc = "done"
     /\ Len(nodes[root].children) > 0
     /\ \A k \in 1 .. Len(nodes[root].children) : nodes[nodes[root].children[k]].n >= 1)
    => /\ best_node # NULL
       /\ ret = nodes[best_node].node_move
       /\ \A k \in 1 .. Len(nodes[root].children) :
             nodes[best_node].w * nodes[nodes[root].children[k]].n
                >= nodes[nodes[root].children[k]].w * nodes[best_node].n

\* C10: a call of backpropagation(leaf, outcome) with a non-null leaf adds 1
\* to n and outcome to w at every node on the parent chain from the leaf to
\* the root, and leaves n, w, children and parent of every other node as
\* they were.
C10_BackpropagationFrame ==
    [][(pc = "backprop" /\ current_node # NULL) =>
         /\ Len(nodes') = Len(nodes)
         /\ \A x \in 1 .. Len(nodes) :
               /\ nodes'[x].parent = nodes[x].parent
               /\ nodes'[x].children = nodes[x].children
               /\ IF x \in Chain(nodes, current_node)
                  THEN nodes'[x].n = nodes[x].n + 1 /\ nodes'[x].w = nodes[x].w + result
                  ELSE nodes'[x].n = nodes[x].n /\ nodes'[x].w = nodes[x].w]_vars

C10_Witness ==
    /\ pc = "select" /\ i >= 2
    /\ current_node # root /\ nodes[current_node].w >= 1
    /\ \E x \in 1 .. Len(nodes) : x \notin Chain(nodes, current_node) /\ nodes[x].n > 0

\* C11: when take_action returns, every node allocated during the call, the
\* root and every node created by expand, has been freed exactly once: the
\* number of nodes freed equals the number of nodes allocated.
C11_AllNodesFreed == (pc = "done" /\ simulation_times >= 1) => freed = allocated

\* C12: on a board where every placement occupies one more cell of a finite
\* grid, simulate terminates and its return value is 0 or 1.
C12_SimulateTerminates == <>(pc = "simulate_done" /\ result \in {0, 1})

C12_Witness ==
    /\ pc = "simulate_done" /\ result \in {0, 1}
    /\ Stones(simulate_board) >= Stones(state) + 2

\* C13: when simulate returns, the side to move on the simulated board has
\* no legal placement, and the value returned is 0 exactly when that side is
\* who, and 1 otherwise.
C13_OutcomeAtTerminalBoard ==
    pc = "simulate_done" =>
       /\ LegalMoves(simulate_board) = {}
       /\ result = (IF simulate_board.turn = who THEN 0 ELSE 1)

C13_Witness ==
    /\ pc = "simulate_done" /\ result = 0
    /\ simulate_board.turn = who
    /\ Stones(simulate_board) > Stones(state)

\* C17: inside simulate each randomized pass applies at most one move to the
\* simulated board, the first legal one in that pass's order, and the
\* candidates are shuffled again before the next move is applied.
C17_OneMovePerPass == last_pass <= 1

\* C14: two agents built with the same seed, role and budget and asked to
\* move on the same board return the same move: the shuffles are the only
\* source of variation.  Two runs that draw the same shuffles differ only
\* where a step has more than one outcome for one shuffle, so the claim is
\* that no step has: the descent of select, the side expand gives to the
\* children and the final select_child each have exactly one outcome, and
\* no score is computed by a division by zero.
C14_OnlyShufflesVary ==
    /\ (pc = "select" /\ i < simulation_times) =>
          Cardinality(select(nodes, state, root)) = 1
    /\ (pc = "select" /\ ~(i < simulation_times)) =>
          Cardinality(select_child(nodes, state, root, FinalC)) = 1
    /\ pc = "expand" => Cardinality(reverse_player(nodes[current_node].placer)) = 1
    /\ ~div_by_zero

C14_Witness ==
    /\ pc = "select" /\ ~(i < simulation_times) /\ i >= 3
    /\ \E x \in 1 .. Len(nodes) : x # root /\ Len(nodes[x].children) > 0
    /\ \A k \in 1 .. Len(nodes[root].children) : nodes[nodes[root].children[k]].n >= 1
    /\ Len(nodes[root].children) >= 2

\* C15: within one search the driver invokes expand at most once on any
\* node, and only on a node that at that moment has n = 0 and no children;
\* so the children of no node are populated twice.
C15_ExpandOncePerFreshNode ==
    /\ expand_on_fresh
    /\ \A x \in 1 .. Len(nodes) :
          /\ expand_calls[x] <= 1
          /\ Len(nodes[x].children) > 0 => expand_calls[x] = 1

C15_Witness ==
    /\ pc = "select"
    /\ \E x \in 1 .. Len(nodes) : x # root /\ Len(nodes[x].children) > 0
    /\ \E y \in 1 .. Len(nodes) :
          /\ expand_calls[y] = 1 /\ Len(nodes[y].children) = 0
          /\ nodes[y].n >= 2

\* C16: expand creates nodes only for the legal candidate moves, so every
\* node ever allocated is the root or an element of the children of exactly
\* one node: no node is allocated and left out of the tree.
C16_NoOrphanNode ==
    /\ allocated = Len(nodes)
    /\ \A x \in 2 .. Len(nodes) :
          Cardinality({yk \in (1 .. Len(nodes)) \X (1 .. NCells) :
                         /\ yk[2] <= Len(nodes[yk[1]].children)
                         /\ nodes[yk[1]].children[yk[2]] = x}) = 1

\* C18: at every iteration boundary of the search loop, and when the loop
\* is over, every node with n = 0 has no children.
C18_UnvisitedHasNoChildren ==
    pc \in {"select", "done"} =>
       \A x \in 1 .. Len(nodes) : nodes[x].n = 0 => Len(nodes[x].children) = 0

C18_Witness ==
    /\ pc = "select" /\ i >= 2
    /\ \E x \in 1 .. Len(nodes) : x # root /\ Len(nodes[x].children) > 0
    /\ \E y \in 1 .. Len(nodes) : nodes[y].n = 0

RECURSIVE SumW(_, _)
SumW(kids, k) == IF k > Len(kids) THEN 0 ELSE kids[k].w + SumW(kids, k + 1)

\* C19: at every iteration boundary every node with at least one child has
\* n = 1 + the sum of its children's n, and w = r + the sum of its children's
\* w, where r in {0, 1} is the outcome of the rollout of the iteration that
\* expanded the node.
C19_ParentSumsChildren ==
    pc \in {"select", "done"} =>
       \A x \in 1 .. Len(nodes) :
          Len(nodes[x].children) > 0 =>
             /\ nodes[x].n = 1 + SumN(KidsOf(nodes, x), 1)
             /\ first_result[x] \in {0, 1}
             /\ nodes[x].w = first_result[x] + SumW(KidsOf(nodes, x), 1)

C19_Witness ==
    /\ pc = "select"
    /\ \E x \in 1 .. Len(nodes) :
          /\ x # root /\ Len(nodes[x].children) > 0
          /\ first_result[x] = 1 /\ nodes[x].n >= 2
          /\ SumW(KidsOf(nodes, x), 1) >= 1

\* C20: for every budget simulation_times, take_action returns the no-move
\* value only when the board has no legal move, and returns a move that is
\* legal on the board whenever the board has one.
C20_LegalMoveReturned ==
    (pc = "done" /\ simulation_times >= 0) =>
       /\ ret = NoMove => LegalMoves(state) = {}
       /\ LegalMoves(state) # {} => ret \in LegalMoves(state)

====
